---- MODULE Spec2Model ----
(***************************************************************************)
(* A model of src/katello/agent/katelloplugin.py: the katello agent plugin *)
(* for gofer.  The plugin's threads are the thread that runs init_plugin,  *)
(* the PathMonitor thread that runs the two path callbacks, the Attach     *)
(* threads (one started by init_plugin, one per certificate_changed call)  *)
(* and the thread on which gofer runs a remote Content call.               *)
(*                                                                         *)
(* gofer, subscription-manager, rhsm, yum and pulp are external: what they *)
(* answer is a nondeterministic choice over the answers they can give.     *)
(***************************************************************************)
EXTENDS Integers, Sequences, FiniteSets, TLC

\* ------------------------------------------------------------------ bounds

\* How many times the consumer certificate changes on disk.
MaxCertEvents == 1

\* The longest list of enabled repositories yum answers with.
MaxRepos == 3

\* ------------------------------------------------------------ the constants

\* A path is the sequence of its components: /etc/yum.repos.d/redhat.repo.
REPOSITORY_PATH == <<"etc", "yum.repos.d", "redhat.repo">>

\* ConsumerIdentity.certpath()
CERT_PATH == <<"etc", "pki", "consumer", "cert.pem">>

Paths == {CERT_PATH, REPOSITORY_PATH}

\* The consumer identity on disk: no valid certificate, or the consumer id
\* the certificate holds.
NoCert == "nocert"
ConsumerIds == {"c1", "c2"}
Certs == ConsumerIds \cup {NoCert}

\* Threads: the PathMonitor thread and the Attach threads.  Attach thread 1 is
\* the one init_plugin starts, thread k + 1 the one the k-th call of
\* certificate_changed starts.
PMON == 0
STARTUP == 1
Workers == 1 .. (MaxCertEvents + 1)
Threads == {PMON} \cup Workers

\* ---------------------------------------------------------------- the state

VARIABLES
    registered,   \* the module's global 'registered'
    lastWriter,   \* history: the thread that wrote 'registered' last (-1: none)
    latest,       \* history: the validate_registration started last, and its find
    cert,         \* the consumer certificate on disk
    certEvents,   \* how many times the certificate changed
    yumRepos,     \* yb.repos.listEnabled(): a sequence of repositories
    pending,      \* the monitored paths that changed and were not handled yet
    callbacks,    \* path_monitor's table: path -> the callback added for it
    initpc,       \* where init_plugin is
    pc,           \* where each thread is
    spawned,      \* how many Attach threads certificate_changed started
    pmPath,       \* the path the PathMonitor thread's callback was called with
    usId,         \* update_settings' local 'certificate' (per thread)
    vres,         \* history: what validation found in the thread's pass in progress
    steps,        \* history: what the thread did in this pass, in order
    cfg,          \* plugin.cfg.messaging
    lastSignal,   \* the last of plugin.attach() / plugin.detach()
    lastPut,      \* the PUTs the entitlement server received (the last one)
    reportPath,   \* EnabledReport's argument
    report,       \* EnabledReport(path).content
    rpc           \* the remote Content call: what was asked, forwarded, answered

vars == <<registered, lastWriter, latest, cert, certEvents,
                   yumRepos, pending,
          callbacks, initpc, pc, spawned, pmPath, usId, vres, steps,
          cfg, lastSignal, lastPut, reportPath, report, rpc>>

\* No validate_registration was started yet.
NoValidation == [by |-> -1, found |-> FALSE]

\* validate_registration is started by thread w.
ValidationOf(w) == [by |-> w, found |-> FALSE]

\* No remote Content call is being served.
NoCall ==
    [pc |-> "idle", op |-> "", units |-> <<>>, options |-> <<>>,
     forwarded |-> <<>>, answer |-> <<>>, result |-> <<>>, consumer_id |-> <<>>]

\* ------------------------------------------------- the enabled repos report

\* os.path.basename: the last component of a path; '' for the empty path.
basename(path) == IF Len(path) = 0 THEN "" ELSE path[Len(path)]

\* A repository as yum describes it.  repofile is <<>> when yum knows no
\* file for it (None or '').
RepoIds == {"r1", "r2"}
RepoFiles == {<<>>, REPOSITORY_PATH, <<"etc", "yum.repos.d", "other.repo">>,
              <<"tmp", "redhat.repo">>}
BaseUrls == {"u1"}
Repos == [id : RepoIds, repofile : RepoFiles, baseurl : BaseUrls]

RECURSIVE SeqsUpTo(_, _)
SeqsUpTo(S, n) ==
    IF n = 0 THEN {<<>>}
    ELSE LET shorter == SeqsUpTo(S, n - 1)
         IN shorter \cup {Append(q, x) : q \in shorter, x \in S}

\* The loop of EnabledReport.find_enabled, from the repositories left to visit
\* and the list built so far.
RECURSIVE find_enabled_loop(_, _, _)
find_enabled_loop(rs, repofn, enabled) ==
    IF rs = <<>> THEN enabled
    ELSE LET r == Head(rs)
         IN IF r.repofile = <<>>
            THEN find_enabled_loop(Tail(rs), repofn, enabled)
            ELSE IF basename(r.repofile) # repofn
            THEN find_enabled_loop(Tail(rs), repofn, enabled)
            ELSE find_enabled_loop(Tail(rs), repofn,
                     Append(enabled,
                            [repositoryid |-> r.id, baseurl |-> r.baseurl]))

\* A find_enabled that forgets to compare the file names.
find_enabled_unfiltered(yb, repofn) ==
    [repos |-> [i \in 1 .. Len(yb) |->
                   [repositoryid |-> yb[i].id, baseurl |-> yb[i].baseurl]]]

\* EnabledReport.find_enabled(yb, repofn)
find_enabled(yb, repofn) == [repos |-> find_enabled_loop(yb, repofn, <<>>)]

\* A generate that returns the repo list without wrapping it.
generate_unwrapped(yb, repofn) == find_enabled(yb, repofn)

\* EnabledReport.generate(repofn), on the yum state yb that Yum() reads.
generate(yb, repofn) == [enabled_repos |-> find_enabled(yb, repofn)]

\* EnabledReport(path).content
EnabledReport(yb, path) == generate(yb, basename(path))

\* The yum states the attach machinery is run on: the repositories of
\* redhat.repo with one of another file, and the same after one was disabled.
RepoSamples ==
    { << [id |-> "r1", repofile |-> REPOSITORY_PATH, baseurl |-> "u1"],
         [id |-> "r2", repofile |-> <<"etc", "yum.repos.d", "other.repo">>,
          baseurl |-> "u1"] >>,
      << [id |-> "r2", repofile |-> <<"etc", "yum.repos.d", "other.repo">>,
          baseurl |-> "u1"] >> }

\* ------------------------------------------------------------ init_plugin

\* What a step of the attach machinery leaves alone.
Others == <<reportPath, report, rpc>>

\* path = ConsumerIdentity.certpath(); path_monitor.add(path, certificate_changed)
InitAddCert ==
    /\ initpc = "add_cert"
    /\ callbacks' = [callbacks EXCEPT ![CERT_PATH] = "certificate_changed"]
    /\ initpc' = "add_repo"
    /\ UNCHANGED <<registered, lastWriter, latest, cert, certEvents,
                   yumRepos, pending,
                   pc, spawned, pmPath, usId, vres, steps, cfg,
                   lastSignal, lastPut, Others>>

\* An init_plugin that adds certificate_changed for the repository file too.
InitAddRepoWrongCallback ==
    /\ initpc = "add_repo"
    /\ callbacks' = [callbacks EXCEPT ![REPOSITORY_PATH] = "certificate_changed"]
    /\ initpc' = "pmon_start"
    /\ UNCHANGED <<registered, lastWriter, latest, cert, certEvents,
                   yumRepos, pending,
                   pc, spawned, pmPath, usId, vres, steps, cfg,
                   lastSignal, lastPut, Others>>

\* path_monitor.add(REPOSITORY_PATH, send_enabled_report)
InitAddRepo ==
    /\ initpc = "add_repo"
    /\ callbacks' = [callbacks EXCEPT ![REPOSITORY_PATH] = "send_enabled_report"]
    /\ initpc' = "pmon_start"
    /\ UNCHANGED <<registered, lastWriter, latest, cert, certEvents,
                   yumRepos, pending,
                   pc, spawned, pmPath, usId, vres, steps, cfg,
                   lastSignal, lastPut, Others>>

\* path_monitor.start()
InitPmonStart ==
    /\ initpc = "pmon_start"
    /\ pc' = [pc EXCEPT ![PMON] = "poll"]
    /\ initpc' = "attach_start"
    /\ UNCHANGED <<registered, lastWriter, latest, cert, certEvents,
                   yumRepos, pending,
                   callbacks, spawned, pmPath, usId, vres, steps, cfg,
                   lastSignal, lastPut, Others>>

\* An init_plugin that joins the thread it started, as certificate_changed does.
InitAttachStartAndJoin ==
    /\ initpc = "attach_start"
    /\ \/ /\ pc[STARTUP] = "idle"
          /\ pc' = [pc EXCEPT ![STARTUP] = "start"]
          /\ initpc' = initpc
       \/ /\ pc[STARTUP] = "done"
          /\ initpc' = "returned"
          /\ pc' = pc
    /\ UNCHANGED <<registered, lastWriter, latest, cert, certEvents,
                   yumRepos, pending,
                   callbacks, spawned, pmPath, usId, vres, steps, cfg,
                   lastSignal, lastPut, Others>>

\* attach = Attach(); attach.start(), and init_plugin returns.
InitAttachStart ==
    /\ initpc = "attach_start"
    /\ pc' = [pc EXCEPT ![STARTUP] = "start"]
    /\ initpc' = "returned"
    /\ UNCHANGED <<registered, lastWriter, latest, cert, certEvents,
                   yumRepos, pending,
                   callbacks, spawned, pmPath, usId, vres, steps, cfg,
                   lastSignal, lastPut, Others>>

\* The thread that runs init_plugin.
InitPlugin == InitAddCert \/ InitAddRepo \/ InitPmonStart \/ InitAttachStart

\* ------------------------------------------------------------ the environment

\* The consumer certificate changes on disk: the system is registered,
\* registered again as another consumer, or unregistered.
CertChange ==
    /\ certEvents < MaxCertEvents
    /\ certEvents' = certEvents + 1
    /\ \E c \in Certs \ {cert} : cert' = c
    /\ pending' = IF callbacks[CERT_PATH] # "none"
                  THEN pending \cup {CERT_PATH} ELSE pending
    /\ UNCHANGED <<registered, lastWriter, latest, yumRepos, callbacks, initpc,
                   pc, spawned, pmPath, usId, vres, steps, cfg,
                   lastSignal, lastPut, Others>>

\* The repository file changes on disk, and with it what yum enables.
RepoFileChange ==
    /\ \E y \in RepoSamples \ {yumRepos} : yumRepos' = y
    /\ pending' = IF callbacks[REPOSITORY_PATH] # "none"
                  THEN pending \cup {REPOSITORY_PATH} ELSE pending
    /\ UNCHANGED <<registered, lastWriter, latest, cert, certEvents,
                   callbacks, initpc,
                   pc, spawned, pmPath, usId, vres, steps, cfg,
                   lastSignal, lastPut, Others>>

\* ---------------------------------------------------- send_enabled_report

\* The path send_enabled_report is called with: the changed path when the
\* PathMonitor thread calls it, the default REPOSITORY_PATH in Attach.run.
ReportPathOf(t) == IF t = PMON THEN pmPath ELSE REPOSITORY_PATH

\* The history of an Attach thread's pass with one more entry.
Logged(t, what) ==
    IF t \in Workers THEN [steps EXCEPT ![t] = Append(@, what)] ELSE steps

\* An Attach.run that calls plugin.attach() right after send_enabled_report().
AfterReportSkipsSettings(t) == IF t = PMON THEN "poll" ELSE "attach"

\* Where the caller goes on when send_enabled_report returns.
AfterReport(t) == IF t = PMON THEN "poll" ELSE "us_read"

\* A send_enabled_report without its first two lines.
SendEnabledReportNoGuard(t) ==
    /\ pc[t] = "ser_check"
    /\ pc' = [pc EXCEPT ![t] = "ser_body"]
    /\ UNCHANGED <<registered, lastWriter, latest, cert, certEvents,
                   yumRepos, pending,
                   callbacks, initpc, spawned, pmPath, usId, vres,
                   steps, cfg, lastSignal, lastPut, Others>>

\* if not registered: return
SendEnabledReportGuard(t) ==
    /\ pc[t] = "ser_check"
    /\ IF ~registered
       THEN /\ pc' = [pc EXCEPT ![t] = AfterReport(t)]
            /\ steps' = Logged(t, "report_skipped")
            /\ pmPath' = IF t = PMON THEN <<>> ELSE pmPath
       ELSE /\ pc' = [pc EXCEPT ![t] = "ser_body"]
            /\ UNCHANGED <<steps, pmPath>>
    /\ UNCHANGED <<registered, lastWriter, latest, cert, certEvents,
                   yumRepos, pending,
                   callbacks, initpc, spawned, usId, vres, cfg,
                   lastSignal, lastPut, Others>>

\* A send_enabled_report without its except clause: what the try block
\* raises reaches the caller, and an Attach thread goes to its own except
\* clause and sleeps.
SendEnabledReportBodyPropagates(t) ==
    /\ pc[t] = "ser_body"
    /\ \E raised \in {"UEP", "read", "EnabledReport", "report_enabled", "nothing"} :
          /\ cert = NoCert => raised \in {"UEP", "read"}
          /\ raised = "read" => cert = NoCert
          /\ IF raised = "nothing"
             THEN /\ lastPut' = << [consumer_id |-> cert,
                                    content |-> EnabledReport(yumRepos,
                                                              ReportPathOf(t))] >>
                  /\ steps' = Logged(t, "report_sent")
                  /\ pc' = [pc EXCEPT ![t] = AfterReport(t)]
             ELSE /\ lastPut' = lastPut
                  /\ steps' = Logged(t, "raised")
                  /\ pc' = [pc EXCEPT ![t] = IF t = PMON THEN "poll" ELSE "sleep"]
    /\ pmPath' = IF t = PMON THEN <<>> ELSE pmPath
    /\ UNCHANGED <<registered, lastWriter, latest, cert, certEvents,
                   yumRepos, pending,
                   callbacks, initpc, spawned, usId, vres, cfg,
                   lastSignal, Others>>

\* The try block: UEP(), ConsumerIdentity.read(), EnabledReport(path) and
\* uep.report_enabled(consumer id, report.content).  Each of the four may
\* raise (read() does when there is no certificate); whatever is raised is
\* logged and send_enabled_report returns.
SendEnabledReportBody(t) ==
    /\ pc[t] = "ser_body"
    /\ \E raised \in {"UEP", "read", "EnabledReport", "report_enabled", "nothing"} :
          /\ cert = NoCert => raised \in {"UEP", "read"}
          /\ raised = "read" => cert = NoCert
          /\ IF raised = "nothing"
             THEN /\ lastPut' = << [consumer_id |-> cert,
                                    content |-> EnabledReport(yumRepos,
                                                              ReportPathOf(t))] >>
                  /\ steps' = Logged(t, "report_sent")
             ELSE /\ lastPut' = lastPut
                  /\ steps' = Logged(t, "report_failed")
    /\ pc' = [pc EXCEPT ![t] = AfterReport(t)]
    /\ pmPath' = IF t = PMON THEN <<>> ELSE pmPath
    /\ UNCHANGED <<registered, lastWriter, latest, cert, certEvents,
                   yumRepos, pending,
                   callbacks, initpc, spawned, usId, vres, cfg,
                   lastSignal, Others>>

\* -------------------------------------------------- the PathMonitor thread

\* certificate_changed(path), to attach.start(): the next Attach thread runs.
CertificateChangedStart ==
    /\ spawned + 2 \in Workers
    /\ spawned' = spawned + 1
    /\ pc' = [pc EXCEPT ![PMON] = "cc_join", ![spawned + 2] = "start"]
    /\ UNCHANGED steps

\* The PathMonitor thread finds that path p changed and calls the callback
\* added for it.
PmonNotify(p) ==
    /\ pc[PMON] = "poll"
    /\ p \in pending
    /\ pending' = pending \ {p}
    /\ pmPath' = p
    /\ IF callbacks[p] = "certificate_changed"
       THEN CertificateChangedStart
       ELSE /\ callbacks[p] = "send_enabled_report"
            /\ pc' = [pc EXCEPT ![PMON] = "ser_check"]
            /\ UNCHANGED <<spawned, steps>>
    /\ UNCHANGED <<registered, lastWriter, latest, cert, certEvents, yumRepos,
                   callbacks, initpc, usId, vres, cfg, lastSignal,
                   lastPut, Others>>

\* A certificate_changed without attach.join(): it returns at once.
CertificateChangedNoJoin ==
    /\ pc[PMON] = "cc_join"
    /\ pc' = [pc EXCEPT ![PMON] = "poll"]
    /\ pmPath' = <<>>
    /\ UNCHANGED <<registered, lastWriter, latest, cert, certEvents,
                   yumRepos, pending,
                   callbacks, initpc, spawned, usId, vres, steps,
                   cfg, lastSignal, lastPut, Others>>

\* attach.join(): certificate_changed returns when the thread it started ended.
CertificateChangedJoin ==
    /\ pc[PMON] = "cc_join"
    /\ pc[spawned + 1] = "done"
    /\ pc' = [pc EXCEPT ![PMON] = "poll"]
    /\ pmPath' = <<>>
    /\ UNCHANGED <<registered, lastWriter, latest, cert, certEvents,
                   yumRepos, pending,
                   callbacks, initpc, spawned, usId, vres, steps,
                   cfg, lastSignal, lastPut, Others>>

\* The PathMonitor thread.
PathMonitor ==
    \/ \E p \in Paths : PmonNotify(p)
    \/ CertificateChangedJoin
    \/ SendEnabledReportGuard(PMON)
    \/ SendEnabledReportBody(PMON)

\* --------------------------------------------------- validate_registration

\* What uep.getConsumer(consumer_id) can do: return the consumer, return None,
\* raise RemoteServerException with code 404, raise it with another code, or
\* raise anything else (no connection, a bad certificate).
Answers == {"consumer", "None", "NOT_FOUND", "RemoteServerException", "Exception"}

\* An Attach.run whose except clause ends the thread.
RaiseAndGiveUp(w) ==
    /\ pc' = [pc EXCEPT ![w] = "done"]
    /\ steps' = [steps EXCEPT ![w] = Append(@, "raised")]
    /\ vres' = [vres EXCEPT ![w] = "pending"]

\* Attach.run's except clause is entered: log.warn, then sleep(60).
Raise(w) ==
    /\ pc' = [pc EXCEPT ![w] = "sleep"]
    /\ steps' = [steps EXCEPT ![w] = Append(@, "raised")]
    /\ vres' = [vres EXCEPT ![w] = "pending"]

\* A validate_registration that does not reset the flag first.
ValidateStartNoReset(w) ==
    /\ pc[w] \in {"start", "sleep"}
    /\ latest' = ValidationOf(w)
    /\ steps' = [steps EXCEPT ![w] = <<"validate">>]
    /\ IF cert # NoCert
       THEN /\ pc' = [pc EXCEPT ![w] = "v_lookup"]
            /\ vres' = [vres EXCEPT ![w] = "pending"]
       ELSE /\ pc' = [pc EXCEPT ![w] = "run_if"]
            /\ vres' = [vres EXCEPT ![w] = "no_identity"]
    /\ UNCHANGED <<registered, lastWriter, cert, certEvents, yumRepos, pending,
                   callbacks, initpc, spawned, pmPath, usId, cfg, lastSignal,
                   lastPut, Others>>

\* A pass of Attach.run starts (the thread started, or sleep(60) is over) and
\* calls validate_registration, to its first return:
\*   registered = False
\*   if ConsumerIdentity.existsAndValid(): read the consumer id; else: return
ValidateStart(w) ==
    /\ pc[w] \in {"start", "sleep"}
    /\ registered' = FALSE
    /\ lastWriter' = w
    /\ latest' = ValidationOf(w)
    /\ steps' = [steps EXCEPT ![w] = <<"validate">>]
    /\ IF cert # NoCert
       THEN /\ pc' = [pc EXCEPT ![w] = "v_lookup"]
            /\ vres' = [vres EXCEPT ![w] = "pending"]
       ELSE /\ pc' = [pc EXCEPT ![w] = "run_if"]
            /\ vres' = [vres EXCEPT ![w] = "no_identity"]
    /\ UNCHANGED <<cert, certEvents, yumRepos, pending, callbacks, initpc,
                   spawned, pmPath, usId, cfg, lastSignal, lastPut, Others>>

\* A lookup that lets the 404 propagate like any other error.
ValidateLookupRaisesNotFound(w) ==
    /\ pc[w] = "v_lookup"
    /\ \E ans \in Answers :
          IF ans \in {"consumer", "None"}
          THEN /\ registered' = (ans # "None")
               /\ lastWriter' = w
               /\ latest' = IF ans # "None" /\ latest.by = w
                            THEN [latest EXCEPT !.found = TRUE] ELSE latest
               /\ vres' = [vres EXCEPT ![w] =
                              IF ans # "None" THEN "found" ELSE "none"]
               /\ pc' = [pc EXCEPT ![w] = "run_if"]
               /\ steps' = steps
          ELSE /\ Raise(w)
               /\ UNCHANGED <<registered, lastWriter, latest>>
    /\ UNCHANGED <<cert, certEvents, yumRepos, pending, callbacks, initpc,
                   spawned, pmPath, usId, cfg, lastSignal, lastPut, Others>>

\* The try block of validate_registration:
\*   uep = UEP(); consumer = uep.getConsumer(consumer_id)
\*   registered = (consumer is not None)
\* and its except clauses: a 404 is swallowed and validate_registration
\* returns; anything else is logged and raised again, to Attach.run's except.
ValidateLookup(w) ==
    /\ pc[w] = "v_lookup"
    /\ \E ans \in Answers :
          IF ans \in {"consumer", "None"}
          THEN /\ registered' = (ans # "None")
               /\ lastWriter' = w
               /\ latest' = IF ans # "None" /\ latest.by = w
                            THEN [latest EXCEPT !.found = TRUE] ELSE latest
               /\ vres' = [vres EXCEPT ![w] =
                              IF ans # "None" THEN "found" ELSE "none"]
               /\ pc' = [pc EXCEPT ![w] = "run_if"]
               /\ steps' = steps
          ELSE IF ans = "NOT_FOUND"
          THEN /\ pc' = [pc EXCEPT ![w] = "run_if"]
               /\ vres' = [vres EXCEPT ![w] = "not_found"]
               /\ UNCHANGED <<registered, lastWriter, latest, steps>>
          ELSE /\ Raise(w)
               /\ UNCHANGED <<registered, lastWriter, latest>>
    /\ UNCHANGED <<cert, certEvents, yumRepos, pending, callbacks, initpc,
                   spawned, pmPath, usId, cfg, lastSignal, lastPut, Others>>

\* ------------------------------------------------------------ update_settings

Unset == <<>>

\* An update_settings that clears the flag when it cannot read its inputs.
UpdateSettingsReadClearsFlag(w) ==
    /\ pc[w] = "us_read"
    /\ \E ok \in BOOLEAN :
          IF ok /\ cert # NoCert
          THEN /\ usId' = [usId EXCEPT ![w] = cert]
               /\ pc' = [pc EXCEPT ![w] = "us_write"]
               /\ UNCHANGED <<steps, vres, registered>>
          ELSE /\ Raise(w)
               /\ usId' = usId
               /\ registered' = FALSE
    /\ UNCHANGED <<lastWriter, latest, cert, certEvents,
                   yumRepos, pending,
                   callbacks, initpc, spawned, pmPath, cfg, lastSignal,
                   lastPut, Others>>

\* rhsm_conf = Config(RHSM_CONFIG_PATH); certificate = ConsumerIdentity.read().
\* Either may raise: the file is unreadable, there is no certificate.
UpdateSettingsRead(w) ==
    /\ pc[w] = "us_read"
    /\ \E ok \in BOOLEAN :
          IF ok /\ cert # NoCert
          THEN /\ usId' = [usId EXCEPT ![w] = cert]
               /\ pc' = [pc EXCEPT ![w] = "us_write"]
               /\ UNCHANGED <<steps, vres>>
          ELSE /\ Raise(w)
               /\ usId' = usId
    /\ UNCHANGED <<registered, lastWriter, latest, cert, certEvents,
                   yumRepos, pending,
                   callbacks, initpc, spawned, pmPath, cfg, lastSignal,
                   lastPut, Others>>

\* The messaging settings after the assignments of update_settings, up to the
\* one that raised:
\*   cacert = rhsm_conf['rhsm']['repo_ca_cert'] % rhsm_conf['rhsm']
\*   url = 'proton+amqps://%s:5647' % rhsm_conf['server']['hostname']
\*   uuid = 'pulp.agent.%s' % certificate.getConsumerId()
SettingsAfter(old, raised, id) ==
    [cacert |-> IF raised = "cacert" THEN old.cacert ELSE "repo_ca_cert",
     url |-> IF raised \in {"cacert", "url"} THEN old.url
             ELSE <<"proton+amqps", "hostname", "5647">>,
     uuid |-> IF raised \in {"cacert", "url"} THEN old.uuid
              ELSE <<"pulp.agent", id>>]

\* The three assignments and bundle(certificate).  Reading a key the file
\* lacks raises, and so does bundle when bundle.pem cannot be written; what
\* was assigned before stays assigned.
UpdateSettingsWrite(w) ==
    /\ pc[w] = "us_write"
    /\ \E raised \in {"cacert", "url", "bundle", "nothing"} :
          /\ cfg' = SettingsAfter(cfg, raised, usId[w])
          /\ IF raised = "nothing"
             THEN /\ pc' = [pc EXCEPT ![w] = "attach"]
                  /\ steps' = [steps EXCEPT ![w] = Append(@, "settings")]
                  /\ vres' = vres
             ELSE Raise(w)
    /\ usId' = [usId EXCEPT ![w] = NoCert]
    /\ UNCHANGED <<registered, lastWriter, latest, cert, certEvents,
                   yumRepos, pending,
                   callbacks, initpc, spawned, pmPath, lastSignal, lastPut,
                   Others>>

\* ------------------------------------------------------------- Attach.run

\* An Attach.run that takes the first branch whatever the flag is.
RunBranchAlwaysRegistered(w) ==
    /\ pc[w] = "run_if"
    /\ pc' = [pc EXCEPT ![w] = "ser_check"]
    /\ UNCHANGED <<registered, lastWriter, latest, cert, certEvents,
                   yumRepos, pending,
                   callbacks, initpc, spawned, pmPath, usId, vres,
                   steps, cfg, lastSignal, lastPut, Others>>

\* if registered: ... else: ...
RunBranch(w) ==
    /\ pc[w] = "run_if"
    /\ pc' = [pc EXCEPT ![w] = IF registered THEN "ser_check" ELSE "detach"]
    /\ UNCHANGED <<registered, lastWriter, latest, cert, certEvents,
                   yumRepos, pending,
                   callbacks, initpc, spawned, pmPath, usId, vres,
                   steps, cfg, lastSignal, lastPut, Others>>

\* An Attach.run without its break: a pass that succeeded is run again.
PluginAttachNoBreak(w) ==
    /\ pc[w] = "attach"
    /\ lastSignal' = "attach"
    /\ pc' = [pc EXCEPT ![w] = "sleep"]
    /\ steps' = [steps EXCEPT ![w] = Append(@, "attach")]
    /\ vres' = [vres EXCEPT ![w] = "pending"]
    /\ UNCHANGED <<registered, lastWriter, latest, cert, certEvents,
                   yumRepos, pending,
                   callbacks, initpc, spawned, pmPath, usId, cfg, lastPut,
                   Others>>

\* plugin.attach(), then break; when it raises, the except clause.
PluginAttach(w) ==
    /\ pc[w] = "attach"
    /\ \E ok \in BOOLEAN :
          IF ok
          THEN /\ lastSignal' = "attach"
               /\ pc' = [pc EXCEPT ![w] = "done"]
               /\ steps' = [steps EXCEPT ![w] = Append(@, "attach")]
               /\ vres' = [vres EXCEPT ![w] = "pending"]
          ELSE /\ Raise(w)
               /\ lastSignal' = lastSignal
    /\ UNCHANGED <<registered, lastWriter, latest, cert, certEvents,
                   yumRepos, pending,
                   callbacks, initpc, spawned, pmPath, usId, cfg, lastPut,
                   Others>>

\* plugin.detach(), then break; when it raises, the except clause.
PluginDetach(w) ==
    /\ pc[w] = "detach"
    /\ \E ok \in BOOLEAN :
          IF ok
          THEN /\ lastSignal' = "detach"
               /\ pc' = [pc EXCEPT ![w] = "done"]
               /\ steps' = [steps EXCEPT ![w] = Append(@, "detach")]
               /\ vres' = [vres EXCEPT ![w] = "pending"]
          ELSE /\ Raise(w)
               /\ lastSignal' = lastSignal
    /\ UNCHANGED <<registered, lastWriter, latest, cert, certEvents,
                   yumRepos, pending,
                   callbacks, initpc, spawned, pmPath, usId, cfg, lastPut,
                   Others>>

\* An Attach thread.
Attach(w) ==
    \/ ValidateStart(w)
    \/ ValidateLookup(w)
    \/ RunBranch(w)
    \/ SendEnabledReportGuard(w)
    \/ SendEnabledReportBody(w)
    \/ UpdateSettingsRead(w)
    \/ UpdateSettingsWrite(w)
    \/ PluginAttach(w)
    \/ PluginDetach(w)

\* --------------------------------------------------------- the specification

\* The plugin was loaded: 'registered' is False, nothing is monitored, no
\* thread runs; the certificate and yum's repositories are what they are.
Init ==
    /\ registered = FALSE
    /\ lastWriter = -1
    /\ latest = NoValidation
    /\ cert \in Certs
    /\ certEvents = 0
    /\ yumRepos \in RepoSamples
    /\ pending = {}
    /\ callbacks = [p \in Paths |-> "none"]
    /\ initpc = "add_cert"
    /\ pc = [t \in Threads |-> IF t = PMON THEN "off" ELSE "idle"]
    /\ spawned = 0
    /\ pmPath = <<>>
    /\ usId = [t \in Workers |-> NoCert]
    /\ vres = [t \in Workers |-> "pending"]
    /\ steps = [t \in Workers |-> <<>>]
    /\ cfg = [cacert |-> "unset", url |-> Unset, uuid |-> Unset]
    /\ lastSignal = "none"
    /\ lastPut = <<>>
    /\ reportPath = <<>>
    /\ report = <<>>
    /\ rpc = NoCall

Next ==
    \/ InitPlugin
    \/ CertChange
    \/ RepoFileChange
    \/ PathMonitor
    \/ \E w \in Workers : Attach(w)

Spec == Init /\ [][Next]_vars

\* Every thread that can take a step eventually takes one; what the server,
\* the files and the host answer stays free.
Fairness ==
    /\ WF_vars(InitPlugin)
    /\ WF_vars(PathMonitor)
    /\ \A w \in Workers : WF_vars(Attach(w))

SpecFair == Spec /\ Fairness

\* ---------------------------------------------- EnabledReport on its own

\* The paths EnabledReport is built for.
ReportPaths == RepoFiles

\* Any yum state, any path; no thread runs.
InitReport ==
    /\ registered = FALSE
    /\ lastWriter = -1
    /\ latest = NoValidation
    /\ cert = NoCert
    /\ certEvents = 0
    /\ yumRepos \in SeqsUpTo(Repos, MaxRepos)
    /\ pending = {}
    /\ callbacks = [p \in Paths |-> "none"]
    /\ initpc = "add_cert"
    /\ pc = [t \in Threads |-> IF t = PMON THEN "off" ELSE "idle"]
    /\ spawned = 0
    /\ pmPath = <<>>
    /\ usId = [t \in Workers |-> NoCert]
    /\ vres = [t \in Workers |-> "pending"]
    /\ steps = [t \in Workers |-> <<>>]
    /\ cfg = [cacert |-> "unset", url |-> Unset, uuid |-> Unset]
    /\ lastSignal = "none"
    /\ lastPut = <<>>
    /\ reportPath \in ReportPaths
    /\ report = <<>>
    /\ rpc = NoCall

\* report = EnabledReport(path); report.content
BuildReport ==
    /\ report = <<>>
    /\ report' = <<EnabledReport(yumRepos, reportPath)>>
    /\ UNCHANGED <<registered, lastWriter, latest, cert, certEvents,
                   yumRepos, pending,
                   callbacks, initpc, pc, spawned, pmPath, usId, vres, steps,
                   cfg, lastSignal, lastPut, reportPath, rpc>>

NextReport == BuildReport

SpecReport == InitReport /\ [][NextReport]_vars

\* ------------------------------------------------------- the Content API

\* What a remote call is made with.
UnitLists ==
    { <<>>,
      << [type_id |-> "rpm", unit_key |-> "zsh"] >>,
      << [type_id |-> "rpm", unit_key |-> "zsh"],
         [type_id |-> "rpm", unit_key |-> "ksh"] >> }
OptionSets == { [importkeys |-> TRUE], [importkeys |-> FALSE] }

\* What the dispatcher answers with: a DispatchReport, or it raises.
DispatchReports ==
    { [class |-> "DispatchReport", succeeded |-> TRUE, num_changes |-> 1],
      [class |-> "DispatchReport", succeeded |-> FALSE, num_changes |-> 0] }
DispatchErrors == {"Exception"}

\* report.dict(): the report's fields as a plain mapping.
ReportDict(r) == [succeeded |-> r.succeeded, num_changes |-> r.num_changes]

\* conduit = Conduit(); dispatcher = Dispatcher(), and the call of the
\* dispatcher's method: what Content.<method> forwards.
ContentCall(method, forwardedTo) ==
    /\ rpc.pc = "idle"
    /\ \E units \in UnitLists, options \in OptionSets :
          rpc' = [NoCall EXCEPT
                     !.pc = "dispatching", !.op = method, !.units = units,
                     !.options = options,
                     !.forwarded = << [method |-> forwardedTo, units |-> units,
                                       options |-> options] >>]
    /\ UNCHANGED <<registered, lastWriter, latest, cert, certEvents,
                   yumRepos, pending,
                   callbacks, initpc, pc, spawned, pmPath, usId, vres, steps,
                   cfg, lastSignal, lastPut, reportPath, report>>

\* Content.install(units, options)
ContentInstall == ContentCall("install", "install")

\* A Content.update pasted from install without renaming the method called.
ContentUpdateCallsInstall == ContentCall("update", "install")

\* Content.update(units, options)
ContentUpdate == ContentCall("update", "update")

\* Content.uninstall(units, options)
ContentUninstall == ContentCall("uninstall", "uninstall")

\* A consumer_id that answers with the identifier the plugin was configured
\* with (plugin.cfg.messaging.uuid) instead of reading the certificate.
ConduitConsumerIdFromSettings ==
    /\ rpc.pc = "dispatching"
    /\ rpc' = [rpc EXCEPT !.consumer_id =
                  IF cfg.uuid # Unset THEN <<"returned", cfg.uuid[2]>>
                  ELSE IF cert # NoCert THEN <<"returned", cert>>
                  ELSE <<"raised", "">>]
    /\ UNCHANGED <<registered, lastWriter, latest, cert, certEvents,
                   yumRepos, pending,
                   callbacks, initpc, pc, spawned, pmPath, usId, vres, steps,
                   cfg, lastSignal, lastPut, reportPath, report>>

\* Conduit.consumer_id, which a handler reads during the dispatch:
\*   certificate = ConsumerIdentity.read(); return certificate.getConsumerId()
\* read() raises when there is no certificate.
ConduitConsumerId ==
    /\ rpc.pc = "dispatching"
    /\ rpc' = [rpc EXCEPT !.consumer_id =
                  IF cert # NoCert THEN <<"returned", cert>>
                  ELSE <<"raised", "">>]
    /\ UNCHANGED <<registered, lastWriter, latest, cert, certEvents,
                   yumRepos, pending,
                   callbacks, initpc, pc, spawned, pmPath, usId, vres, steps,
                   cfg, lastSignal, lastPut, reportPath, report>>

\* The dispatcher's method returns its report and Content.<method> returns
\* report.dict(); or it raises, and nothing in Content.<method> catches it.
ContentReturn ==
    /\ rpc.pc = "dispatching"
    /\ \/ \E r \in DispatchReports :
             rpc' = [rpc EXCEPT !.pc = "returned", !.answer = <<"returned", r>>,
                                !.result = <<"returned", ReportDict(r)>>]
       \/ \E e \in DispatchErrors :
             rpc' = [rpc EXCEPT !.pc = "raised", !.answer = <<"raised", e>>,
                                !.result = <<"raised", e>>]
    /\ UNCHANGED <<registered, lastWriter, latest, cert, certEvents,
                   yumRepos, pending,
                   callbacks, initpc, pc, spawned, pmPath, usId, vres, steps,
                   cfg, lastSignal, lastPut, reportPath, report>>

\* gofer has sent the reply: the next remote call can come.
ContentNext ==
    /\ rpc.pc \in {"returned", "raised"}
    /\ rpc' = NoCall
    /\ UNCHANGED <<registered, lastWriter, latest, cert, certEvents,
                   yumRepos, pending,
                   callbacks, initpc, pc, spawned, pmPath, usId, vres, steps,
                   cfg, lastSignal, lastPut, reportPath, report>>

\* The agent at some moment of its life, as far as the Content API can tell:
\* the flag, the certificate and the configured identifier are what the
\* attach machinery left; one remote call at a time.
InitContent ==
    /\ registered \in BOOLEAN
    /\ lastWriter = -1
    /\ latest = NoValidation
    /\ cert \in Certs
    /\ certEvents = 0
    /\ yumRepos \in RepoSamples
    /\ pending = {}
    /\ callbacks = [p \in Paths |-> "none"]
    /\ initpc = "returned"
    /\ pc = [t \in Threads |-> IF t = PMON THEN "off" ELSE "idle"]
    /\ spawned = 0
    /\ pmPath = <<>>
    /\ usId = [t \in Workers |-> NoCert]
    /\ vres = [t \in Workers |-> "pending"]
    /\ steps = [t \in Workers |-> <<>>]
    /\ \E c \in Certs :
          cfg = IF c = NoCert
                THEN [cacert |-> "unset", url |-> Unset, uuid |-> Unset]
                ELSE SettingsAfter([cacert |-> "unset", url |-> Unset,
                                    uuid |-> Unset], "nothing", c)
    /\ lastSignal = "none"
    /\ lastPut = <<>>
    /\ reportPath = <<>>
    /\ report = <<>>
    /\ rpc = NoCall

NextContent ==
    \/ ContentInstall
    \/ ContentUpdate
    \/ ContentUninstall
    \/ ConduitConsumerId
    \/ ContentReturn
    \/ ContentNext
    \/ CertChange

SpecContent == InitContent /\ [][NextContent]_vars

\* ------------------------------------------------------------- the claims

Last(q) == q[Len(q)]

\* The Attach threads certificate_changed starts.
CertWorkers == Workers \ {STARTUP}

\* C1, as the specification states it: the Attach thread a certificate change
\* starts eventually reaches attach or detach, and then does nothing more.
C1_ReachesOutcome ==
    \A w \in CertWorkers :
        (pc[w] = "start") ~>
            (pc[w] = "done" /\ Last(steps[w]) \in {"attach", "detach"})

\* C1, amended: every pass of the thread a certificate change starts ends, in
\* DONE or in the retry delay (it may retry for ever); the thread ends only
\* by signalling attach or detach, the signal ends it, and once ended it does
\* nothing more: no validation, no attach, no detach.
C1_StopsAtOutcome ==
    /\ \A w \in CertWorkers :
          [](pc[w] # "idle" => <>(pc[w] \in {"done", "sleep"}))
    /\ [](\A w \in CertWorkers :
             pc[w] = "done" => Last(steps[w]) \in {"attach", "detach"})
    /\ [][ \A w \in CertWorkers :
              /\ (steps'[w] # steps[w] /\ Last(steps'[w]) \in {"attach", "detach"})
                    => pc'[w] = "done"
              /\ pc[w] = "done"
                    => (pc'[w] = "done" /\ steps'[w] = steps[w]) ]_vars

\* A thread started by a certificate change finished, after a retry of the
\* startup thread.
C1_Witness ==
    \E w \in CertWorkers :
        pc[w] = "done" /\ Last(steps[w]) = "attach" /\ pc[STARTUP] = "sleep"

\* C2: when the lookup answered "not found", validate_registration returns
\* (nothing is raised, the thread is not in its retry delay) and the flag is
\* false when it returns.
C2_NotFoundLeavesFlagFalse ==
    \A w \in Workers :
        vres[w] = "not_found" =>
            (pc[w] # "sleep" /\ (pc[w] = "run_if" => registered = FALSE))

\* C3: a call of send_enabled_report that finds the flag false returns at
\* once: it does not enter the try block (no UEP connection, no PUT), whoever
\* the caller is.
C3_NoNetworkWhenUnregistered ==
    [][ \A t \in Threads :
           (pc[t] = "ser_check" /\ ~registered /\ pc'[t] # pc[t])
               => (pc'[t] = AfterReport(t) /\ lastPut' = lastPut) ]_vars

\* An Attach thread read the flag true, and send_enabled_report, called next,
\* found it false and returned.
C3_Witness ==
    \E w \in Workers : Len(steps[w]) >= 2 /\ steps[w][2] = "report_skipped"

\* The repository is one EnabledReport(reportPath) lists.
Listed(r) == r.repofile # <<>> /\ basename(r.repofile) = basename(reportPath)

\* The entry of the report for a repository.
Entry(r) == [repositoryid |-> r.id, baseurl |-> r.baseurl]

\* C4: the list holds one entry per enabled repository whose file is set and
\* has the basename of the path, in yum's order, duplicates kept, and nothing
\* else.
C4_ReportIsTheFilteredList ==
    report # <<>> =>
        LET listed == SelectSeq(yumRepos, Listed)
            repos == report[1].enabled_repos.repos
        IN /\ repos = [i \in 1 .. Len(listed) |-> Entry(listed[i])]
           /\ Len(repos) = Cardinality({i \in 1 .. Len(yumRepos) : Listed(yumRepos[i])})
           /\ \A i \in 1 .. Len(repos) :
                 \E j \in 1 .. Len(yumRepos) :
                     Listed(yumRepos[j]) /\ repos[i] = Entry(yumRepos[j])

\* Two repositories of the file and one of a file with another basename: the
\* report lists the two.
C4_Witness ==
    /\ report # <<>>
    /\ Len(yumRepos) = 3
    /\ Len(report[1].enabled_repos.repos) = 2
    /\ \E i \in 1 .. 3 :
          yumRepos[i].repofile # <<>> /\ ~Listed(yumRepos[i])

C6_InitReturns ==
    /\ <>(initpc = "returned")
    /\ [](initpc = "returned" =>
            /\ callbacks[CERT_PATH] = "certificate_changed"
            /\ callbacks[REPOSITORY_PATH] = "send_enabled_report"
            /\ pc[PMON] # "off"
            /\ pc[STARTUP] # "idle")

\* init_plugin has returned while the thread it started is in its retry delay.
C6_Witness == initpc = "returned" /\ pc[STARTUP] = "sleep"

\* C7: the callback of the repository file only resends the report: its steps
\* leave the flag, the settings and the attach/detach signal alone, start and
\* move no Attach thread, and send nothing when the flag is false; the
\* callback of the certificate path starts an Attach thread, which begins
\* with validation.
C7_CallbacksDoTheirOwnWork ==
    [][ /\ (pc'[PMON] # pc[PMON]
               /\ (pmPath = REPOSITORY_PATH \/ pmPath' = REPOSITORY_PATH))
            => /\ registered' = registered
               /\ lastWriter' = lastWriter
               /\ cfg' = cfg
               /\ lastSignal' = lastSignal
               /\ \A w \in Workers : pc'[w] = pc[w]
               /\ pc'[PMON] \in {"ser_check", "ser_body", "poll"}
               /\ (pc[PMON] = "ser_check" /\ ~registered) => lastPut' = lastPut
        /\ (pc[PMON] = "poll" /\ pmPath' = CERT_PATH)
            => /\ pc'[PMON] = "cc_join"
               /\ \E w \in CertWorkers : pc[w] = "idle" /\ pc'[w] = "start" ]_vars

\* The PathMonitor thread is resending the report after a change of the
\* repository file, the flag being true.
C7_Witness == pc[PMON] = "ser_body" /\ pmPath = REPOSITORY_PATH

\* C8: a remote call is forwarded once, to the dispatcher's method of the same
\* name, with the units and options given; what the dispatcher returns comes
\* back as a mapping, what it raises is raised; the flag is left alone.
C8_ContentForwards ==
    /\ [](rpc.pc # "idle" =>
            /\ rpc.forwarded = << [method |-> rpc.op, units |-> rpc.units,
                                   options |-> rpc.options] >>
            /\ rpc.pc = "returned" =>
                  /\ rpc.answer[1] = "returned"
                  /\ rpc.result = <<"returned", ReportDict(rpc.answer[2])>>
            /\ rpc.pc = "raised" =>
                  /\ rpc.answer[1] = "raised"
                  /\ rpc.result = rpc.answer)
    /\ [][rpc' # rpc => registered' = registered]_vars

\* An update of two units was forwarded and the dispatcher raised.
C8_Witness ==
    /\ rpc.pc = "raised"
    /\ rpc.op = "update"
    /\ Len(rpc.units) = 2
    /\ rpc.result = <<"raised", "Exception">>

\* C9: with a valid certificate on disk, consumer_id returns the identifier
\* that certificate holds at the time of the call.
C9_ConsumerIdIsTheCertificates ==
    [][ (rpc'.consumer_id # rpc.consumer_id /\ rpc'.pc = "dispatching"
            /\ cert # NoCert)
           => rpc'.consumer_id = <<"returned", cert>> ]_vars

\* consumer_id was read after the certificate changed, and is not the
\* identifier the plugin was configured with before.
C9_Witness ==
    /\ certEvents >= 1
    /\ rpc.consumer_id = <<"returned", cert>>
    /\ cfg.uuid # Unset
    /\ cfg.uuid[2] # cert

\* C10: from its validate_registration's writes of the flag to its read of
\* the flag in Attach.run, no other thread writes the flag.
C10_WorkerOwnsWriteWindow ==
    \A w \in Workers : pc[w] = "run_if" => lastWriter = w


\* The Attach threads a step starts.
Started == {w \in Workers : pc[w] = "idle" /\ pc'[w] # "idle"}

\* C11: the last step of init_plugin starts the startup thread and nothing
\* else starts it; a call of certificate_changed starts exactly one thread,
\* the next one, and nothing else starts one; a thread is started once; and
\* certificate_changed returns only when the thread it started is DONE.
C11_OneWorkerPerEvent ==
    /\ [](spawned <= certEvents)
    /\ [][ /\ Cardinality(Started) <= 1
           /\ \A w \in Workers : pc[w] # "idle" => pc'[w] # "idle"
           /\ \A w \in Started :
                 /\ pc'[w] = "start"
                 /\ w = STARTUP => (initpc = "attach_start" /\ initpc' = "returned")
                 /\ w # STARTUP =>
                       /\ pc[PMON] = "poll" /\ pc'[PMON] = "cc_join"
                       /\ pmPath' = CERT_PATH
                       /\ w = spawned + 2 /\ spawned' = spawned + 1
           /\ (initpc = "attach_start" /\ initpc' # initpc) => Started = {STARTUP}
           /\ (pc[PMON] = "poll" /\ pc'[PMON] = "cc_join") => Started = {spawned + 2}
           /\ (pc[PMON] = "cc_join" /\ pc'[PMON] # "cc_join")
                 => (pc[spawned + 1] = "done" /\ pc'[PMON] = "poll") ]_vars

\* certificate_changed has returned: the thread it started is DONE, and the
\* startup thread was started too.
C11_Witness ==
    /\ spawned = 1
    /\ pc[PMON] = "poll"
    /\ pc[2] = "done"
    /\ pc[STARTUP] # "idle"


\* The places of a thread inside validate_registration.
InValidate == {"start", "sleep", "v_lookup"}

\* C12: a step that changes the flag is a step of validate_registration; the
\* steps of send_enabled_report, update_settings with bundle, EnabledReport,
\* attach and detach, and those of the PathMonitor, leave it as it is.
C12_OnlyValidateWritesFlag ==
    [][ registered' # registered
           => \E w \in Workers : pc[w] \in InValidate /\ pc'[w] # pc[w] ]_vars

\* The flag is True while one thread is in send_enabled_report and another
\* in update_settings: both have run with the flag set and left it set.
C12_Witness ==
    /\ registered
    /\ pc[PMON] = "ser_body"
    /\ \E w \in Workers : pc[w] = "us_write"


\* What send_enabled_report leaves in the history of a pass.
ReportSteps == {"report_sent", "report_failed", "report_skipped"}

\* The places of a thread in the branch of Attach.run taken when the flag
\* read True.
RegisteredBranch == {"ser_check", "ser_body", "us_read", "us_write", "attach"}

\* C13: in a pass that took the branch for a set flag, send_enabled_report
\* was called, then update_settings returned, then attach was signalled, in
\* this order and with nothing else between; the pass leaves the branch only
\* by the signal or by an exception, and never signals detach.
C13_RegisteredBranchOrder ==
    /\ [](\A w \in Workers :
            /\ pc[w] = "attach"
                  => \E r \in ReportSteps : steps[w] = <<"validate", r, "settings">>
            /\ (pc[w] = "done" /\ Last(steps[w]) = "attach")
                  => \E r \in ReportSteps :
                        steps[w] = <<"validate", r, "settings", "attach">>)
    /\ [][ \A w \in Workers :
             (pc[w] \in RegisteredBranch /\ pc'[w] # pc[w])
                => /\ pc'[w] \in RegisteredBranch \cup {"sleep", "done"}
                   /\ pc'[w] = "done" => (pc[w] = "attach" /\ lastSignal' = "attach")
                   /\ pc'[w] # "done" => lastSignal' = lastSignal ]_vars

\* A pass that sent the report, refreshed the settings and signalled attach.
C13_Witness ==
    \E w \in Workers :
        /\ pc[w] = "done"
        /\ steps[w] = <<"validate", "report_sent", "settings", "attach">>
        /\ lastSignal = "attach"


\* C14: a thread that reads the flag False in Attach.run goes to
\* plugin.detach() and nowhere else; from there it signals detach, or the
\* call raises; the pass has called neither send_enabled_report nor
\* update_settings nor plugin.attach(), and changes neither the last report
\* sent nor the messaging settings.
C14_UnregisteredBranch ==
    /\ [](\A w \in Workers :
            /\ pc[w] = "detach" => steps[w] = <<"validate">>
            /\ (pc[w] = "done" /\ Last(steps[w]) = "detach")
                  => steps[w] = <<"validate", "detach">>)
    /\ [][ \A w \in Workers :
             /\ (pc[w] = "run_if" /\ ~registered /\ pc'[w] # pc[w])
                   => (pc'[w] = "detach" /\ UNCHANGED <<lastPut, cfg, lastSignal>>)
             /\ (pc[w] = "detach" /\ pc'[w] # pc[w])
                   => /\ pc'[w] \in {"done", "sleep"}
                      /\ pc'[w] = "done" => lastSignal' = "detach"
                      /\ pc'[w] = "sleep" => lastSignal' = lastSignal
                      /\ UNCHANGED <<lastPut, cfg>> ]_vars

\* A pass that read the flag False and signalled detach.
C14_Witness ==
    \E w \in Workers :
        /\ pc[w] = "done"
        /\ steps[w] = <<"validate", "detach">>
        /\ lastSignal = "detach"


\* The places of a thread inside send_enabled_report.
InReport == {"ser_check", "ser_body"}

\* C15: a thread leaves send_enabled_report only by its return: an Attach
\* thread goes on to update_settings and never to the except clause of
\* Attach.run, also when the try block failed; and a pass whose report
\* failed and that ended, ended with the settings refreshed and attach
\* signalled.
C15_ReportFailureIsSwallowed ==
    /\ [](\A w \in Workers :
            /\ pc[w] = "us_read"
                  => \E r \in ReportSteps : steps[w] = <<"validate", r>>
            /\ (pc[w] = "done" /\ Len(steps[w]) >= 2 /\ steps[w][2] = "report_failed")
                  => steps[w] = <<"validate", "report_failed", "settings", "attach">>)
    /\ [][ \A t \in Threads :
             (pc[t] \in InReport /\ pc'[t] # pc[t])
                => /\ pc'[t] \in {"ser_body", AfterReport(t)}
                   /\ pc[t] = "ser_body" => pc'[t] = AfterReport(t)
                   /\ t \in Workers =>
                         /\ Len(steps'[t]) <= Len(steps[t]) + 1
                         /\ Last(steps'[t]) # "raised" ]_vars

\* A pass whose report failed and that went on to refresh the settings and
\* to signal attach.
C15_Witness ==
    \E w \in Workers :
        /\ pc[w] = "done"
        /\ steps[w] = <<"validate", "report_failed", "settings", "attach">>
        /\ lastSignal = "attach"


\* C16: a step of a pass that fails takes the thread to the sleep of the
\* except clause and to no other place; from the sleep the thread can always
\* go on, and it goes on with a new validate_registration and an empty
\* history, not at the step that failed; a thread that is DONE ended its last
\* pass with attach or detach.
C16_FailureRetriesFromValidation ==
    /\ [](\A w \in Workers :
            /\ pc[w] = "done" => Last(steps[w]) \in {"attach", "detach"}
            /\ pc[w] = "sleep" <=> (steps[w] # <<>> /\ Last(steps[w]) = "raised")
            /\ pc[w] = "sleep" => ENABLED ValidateStart(w))
    /\ [][ \A w \in Workers :
             /\ (pc[w] = "sleep" /\ pc'[w] # pc[w])
                   => /\ pc'[w] \in {"v_lookup", "run_if"}
                      /\ steps'[w] = <<"validate">>
                      /\ ~registered' /\ lastWriter' = w
             /\ (pc'[w] = "sleep" /\ pc[w] # "sleep")
                   => /\ pc[w] \in {"v_lookup", "us_read", "us_write", "attach", "detach"}
                      /\ lastSignal' = lastSignal ]_vars

\* plugin.attach() raised at the end of a pass: the thread sleeps before it
\* validates again.
C16_Witness ==
    \E w \in Workers :
        /\ pc[w] = "sleep"
        /\ \E r \in ReportSteps : steps[w] = <<"validate", r, "settings", "raised">>


\* C17: the flag is True only if the validate_registration started last
\* returned a consumer from its lookup; after the reset at its start the flag
\* is False until then, whatever it was before.
C17_FlagIsTheLatestValidation ==
    registered => latest.found


\* C18: a thread whose own lookup returned a consumer is, in that pass, never
\* at plugin.detach(): it takes the branch that ends with plugin.attach().
C18_FoundNeverDetaches ==
    \A w \in Workers : vres[w] = "found" => pc[w] # "detach"


\* No Attach thread runs, and at least one has ended.
Quiescent ==
    /\ \A w \in Workers : pc[w] \in {"idle", "done"}
    /\ \E w \in Workers : pc[w] = "done"

\* C19: when some Attach thread has ended and none runs, the last signal was
\* attach if the flag is True and detach if it is False.
C19_SignalAgreesWithFlag ==
    Quiescent => (lastSignal = (IF registered THEN "attach" ELSE "detach"))

\* C20: a step of update_settings that raises leaves the three messaging
\* settings as they were.
C20_FailedUpdateChangesNothing ==
    [][ \A w \in Workers :
           (pc[w] \in {"us_read", "us_write"} /\ pc'[w] = "sleep")
               => cfg' = cfg ]_vars

====
